---- MODULE Spec2Model ----
(***************************************************************************)
(* Model of the registry pipelines of inn-smsp-registry:                    *)
(*   - enrich_with_region.py : batched lookup enrichment of a CSV file      *)
(*   - load_msp.py           : batched upsert loader of extraction tuples   *)
(*                                                                         *)
(* Text values are sequences of one-character strings, so that strip() and  *)
(* isdigit() are computed character by character.  The column names         *)
(* "ИНН" and "Регион" of the source are written "INN" and "Region".         *)
(***************************************************************************)
EXTENDS Naturals, Integers, Sequences, FiniteSets, TLC

VARIABLES
    \* ---- enrich_with_region.py ----
    input_exists,   \* INPUT_FILE.exists()
    fieldnames,     \* reader.fieldnames, <<>> when the header cannot be read
    reader_rows,    \* the rows the for-loop has got from csv.DictReader, in order
    batch_inns,     \* batch_inns
    batch_rows,     \* batch_rows
    total,          \* total (enrich_file)
    out_header,     \* header line written to OUTPUT_FILE, NoHeader before
    out_rows,       \* rows passed to writer.writerow, in order
    lookups,        \* identifier lists sent with SQL_LOOKUP, in order
    e_pc,           \* position of enrich_file
    \* ---- load_msp.py ----
    dir_exists,     \* XML_DIR.exists()
    recs,           \* the tuples iter_all_rows(XML_DIR) yields, in order
    rec_pos,        \* number of tuples the for-loop has consumed
    buf,            \* buf
    exec_pos,       \* parameter sets of the running executemany already applied
    loaded,         \* total (load_to_postgres)
    txn,            \* table as seen inside the open transaction of conn
    txn_log,        \* tuples upserted in the open transaction, in order
    table,          \* committed (durable) rows of PG_TABLE
    table0,         \* committed rows when the current run started
    durable_log,    \* tuples whose upsert was committed by the current run
    clock,          \* value now() returns
    runs,           \* number of load runs started
    index_calls,    \* executions of SQL_CREATE_INDEX in the current run
    l_pc,           \* position of load_to_postgres
    \* ---- load_msp.py, iter_all_rows ----
    x_file,         \* index of the file iter_all_rows is reading
    x_events,       \* what iterparse has delivered so far, file by file
    emitted,        \* the tuples iter_all_rows has yielded, in order
    warnings,       \* names of the files a [WARN] line was printed for
    x_pc,           \* position of iter_all_rows
    \* ---- a function under test ----
    fn_arg,         \* argument of the call
    fn_res,         \* result of the call, NotCalled before
    \* ---- configuration ----
    BATCH_SIZE      \* BATCH_SIZE of the running program

enrich_vars == <<input_exists, fieldnames, reader_rows, batch_inns,
                 batch_rows, total, out_header, out_rows, lookups, e_pc>>
load_vars == <<dir_exists, recs, rec_pos, buf, exec_pos, loaded, txn, txn_log, table0,
               durable_log, clock, runs, index_calls, l_pc>>
extract_vars == <<x_file, x_events, emitted, warnings, x_pc>>
fn_vars == <<fn_arg, fn_res>>
vars == <<enrich_vars, load_vars, extract_vars, fn_vars, table, BATCH_SIZE>>

NotCalled == <<"<not called>">>

\* iter_all_rows is not running
ExtractIdle ==
    /\ x_file = 0
    /\ x_events = <<>>
    /\ emitted = <<>>
    /\ warnings = <<>>
    /\ x_pc = "idle"

\* no function is under test
FnIdle ==
    /\ fn_arg = <<>>
    /\ fn_res = NotCalled

----------------------------------------------------------------------------
(* Bounds *)
MaxRows == 3
MaxTuples == 3
MaxBatch == 4
MaxRuns == 2

----------------------------------------------------------------------------
(* Text *)

\* Python None read from a dict or returned by dict.get
None == <<"<None>">>

\* str.isspace for one character
IsSpace(ch) == ch \in {" ", "\t"}

\* the ASCII decimal digits
DecimalDigits == {"0", "1", "2", "3", "4", "5", "6", "7", "8", "9"}

\* str.isdigit for one character: the decimal digits and the other characters
\* of Unicode with a digit value; "^2" stands for SUPERSCRIPT TWO
IsDigit(ch) == ch \in DecimalDigits \cup {"^2"}

\* (x or ""): None and "" both give ""
OrEmpty(x) == IF x = None THEN <<>> ELSE x

RECURSIVE LStrip(_)
LStrip(s) == IF s # <<>> /\ IsSpace(Head(s)) THEN LStrip(Tail(s)) ELSE s

RECURSIVE RStrip(_)
RStrip(s) ==
    IF s # <<>> /\ IsSpace(s[Len(s)]) THEN RStrip(SubSeq(s, 1, Len(s) - 1)) ELSE s

\* str.strip()
Strip(s) == RStrip(LStrip(s))

\* "".join(ch for ch in s if ch.isdigit())
RECURSIVE DigitsOf(_)
DigitsOf(s) ==
    IF s = <<>> THEN <<>>
    ELSE IF IsDigit(Head(s)) THEN <<Head(s)>> \o DigitsOf(Tail(s))
    ELSE DigitsOf(Tail(s))

normalize_inn(raw) == DigitsOf(Strip(OrEmpty(raw)))

\* dict.get(key, default)
Get(row, key, default) == IF key \in DOMAIN row THEN row[key] ELSE default

\* row[key] = value
Put(row, key, value) ==
    [c \in DOMAIN row \cup {key} |-> IF c = key THEN value ELSE row[c]]

Range(s) == {s[i] : i \in 1..Len(s)}

----------------------------------------------------------------------------
(* PG_TABLE *)

\* mutant of Upsert: ON CONFLICT (inn) DO NOTHING, the first write wins
Upsert_DoNothing(rows, rec, now) ==
    LET new == [inn |-> rec[1], inn_type |-> rec[2], kodregion |-> rec[3],
                source_file |-> rec[4], updated_at |-> now]
    IN  IF \E r \in rows : r.inn = rec[1] THEN rows ELSE rows \cup {new}

\* INSERT ... ON CONFLICT (inn) DO UPDATE SET ... of one parameter tuple
\* <<inn, inn_type, kodregion, source_file>>, executed at time now
Upsert(rows, rec, now) ==
    LET new == [inn |-> rec[1], inn_type |-> rec[2], kodregion |-> rec[3],
                source_file |-> rec[4], updated_at |-> now]
    IN  {r \in rows : r.inn # rec[1]} \cup {new}

\* mutant of load_regions: only the first identifier of the batch is looked up
load_regions_FirstOnly(rows, inns) ==
    LET hits == {r \in rows : inns # <<>> /\ r.inn = inns[1]}
    IN  [k \in {r.inn : r \in hits} |->
            (CHOOSE r \in hits : r.inn = k).kodregion]

\* SELECT inn, kodregion FROM PG_TABLE WHERE inn = ANY(inns), as a dict
load_regions(rows, inns) ==
    LET hits == {r \in rows : r.inn \in Range(inns)}
    IN  [k \in {r.inn : r \in hits} |->
            (CHOOSE r \in hits : r.inn = k).kodregion]

----------------------------------------------------------------------------
(* enrich_with_region.py *)

NoHeader == <<"<no header>">>

\* mutant of HeaderOk: the target-region column is not checked
HeaderOk_OnlyInn(names) ==
    /\ names # <<>>
    /\ "INN" \in Range(names)

\* the two column checks of enrich_file
HeaderOk(names) ==
    /\ names # <<>>
    /\ "INN" \in Range(names)
    /\ "Region" \in Range(names)

\* mutant of EnrichRow: the target field is not tested for emptiness
EnrichRow_Overwrite(row, region_map) ==
    LET inn == normalize_inn(Get(row, "INN", <<>>))
        reg == IF inn \in DOMAIN region_map THEN region_map[inn] ELSE None
    IN  IF inn # <<>> /\ reg # None /\ reg # <<>>
        THEN Put(row, "Region", reg)
        ELSE row

\* mutant of EnrichRow: the result of region_map.get is not tested
EnrichRow_FillOnMiss(row, region_map) ==
    LET inn == normalize_inn(Get(row, "INN", <<>>))
        reg == IF inn \in DOMAIN region_map THEN region_map[inn] ELSE None
    IN  IF inn # <<>> /\ Strip(OrEmpty(Get(row, "Region", None))) = <<>>
        THEN Put(row, "Region", OrEmpty(reg))
        ELSE row

\* mutant of EnrichRow: the normalized identifier is stored back in the row
EnrichRow_Canonicalize(row, region_map) ==
    LET inn == normalize_inn(Get(row, "INN", <<>>))
        reg == IF inn \in DOMAIN region_map THEN region_map[inn] ELSE None
    IN  IF inn # <<>> /\ Strip(OrEmpty(Get(row, "Region", None))) = <<>>
           /\ reg # None /\ reg # <<>>
        THEN Put(Put(row, "INN", inn), "Region", reg)
        ELSE row

\* mutant of EnrichRow: the target field is tested without strip()
EnrichRow_NoStrip(row, region_map) ==
    LET inn == normalize_inn(Get(row, "INN", <<>>))
        reg == IF inn \in DOMAIN region_map THEN region_map[inn] ELSE None
    IN  IF inn # <<>> /\ OrEmpty(Get(row, "Region", None)) = <<>>
           /\ reg # None /\ reg # <<>>
        THEN Put(row, "Region", reg)
        ELSE row

\* body of the for-loop of flush for one row
EnrichRow(row, region_map) ==
    LET inn == normalize_inn(Get(row, "INN", <<>>))
        reg == IF inn \in DOMAIN region_map THEN region_map[inn] ELSE None
    IN  IF inn # <<>> /\ Strip(OrEmpty(Get(row, "Region", None))) = <<>>
           /\ reg # None /\ reg # <<>>
        THEN Put(row, "Region", reg)
        ELSE row

\* mutant of FlushRows: the batch is written last row first
FlushRows_Reversed(rows, region_map) ==
    [i \in 1..Len(rows) |-> EnrichRow(rows[Len(rows) + 1 - i], region_map)]

\* the rows flush writes for a batch, in order
FlushRows(rows, region_map) ==
    [i \in 1..Len(rows) |-> EnrichRow(rows[i], region_map)]

\* flush(): nothing for an empty batch, else one lookup and one write per row
Flush(inns, rows) ==
    /\ IF inns = <<>>
       THEN /\ UNCHANGED <<out_rows, lookups, total>>
       ELSE /\ lookups' = Append(lookups, inns)
            /\ out_rows' = out_rows \o FlushRows(rows, load_regions(table, inns))
            /\ total' = total + Len(rows)
    /\ batch_inns' = <<>>
    /\ batch_rows' = <<>>

----------------------------------------------------------------------------
(* Inputs of the enrichment pass *)

\* headers: two accepted ones, an unreadable one, and one lacking each column
Headers ==
    { <<"INN", "Region">>, <<"Name", "Region", "INN">>,
      <<>>, <<"INN", "Name">>, <<"Region", "Name">> }

\* raw identifier cells: padded and punctuated, canonical (absent from the
\* smaller store), and without any digit
InnCells == { <<" ", "1", "-">>, <<"2">>, <<"-">> }

\* raw target-region cells: missing (short line), empty, blank, filled
RegionCells == { None, <<>>, <<" ">>, <<"5">> }

OtherCells == { <<"x">> }

\* the rows DictReader can yield under a header: one cell per column
RowsOf(names) ==
    { [c \in Range(names) |->
          IF c = "INN" THEN i ELSE IF c = "Region" THEN g ELSE o] :
        i \in InnCells, g \in RegionCells, o \in OtherCells }

\* tuples whose load produced the store the enrichment pass reads
StoreRecs == << <<<<"1">>, "IP", <<"7">>, "a.xml">>,
                <<<<"2">>, "UL", <<"8">>, "b.xml">> >>

RECURSIVE ApplyAll(_, _, _)
\* the upserts of a tuple sequence, in order, in one transaction
ApplyAll(rows, seq, now) ==
    IF seq = <<>> THEN rows
    ELSE ApplyAll(Upsert(rows, Head(seq), now), Tail(seq), now)

----------------------------------------------------------------------------
(* enrich_file *)

\* raise FileNotFoundError(INPUT_FILE)
EnrichFileNotFound ==
    /\ e_pc = "start"
    /\ ~input_exists
    /\ e_pc' = "FileNotFoundError"
    /\ UNCHANGED <<input_exists, fieldnames, reader_rows, batch_inns, batch_rows,
                   total, out_header, out_rows, lookups>>
    /\ UNCHANGED <<load_vars, extract_vars, fn_vars, table, BATCH_SIZE>>

\* the header is unreadable or lacks a required column: raise ValueError
EnrichBadHeader ==
    /\ e_pc = "start"
    /\ input_exists
    /\ ~HeaderOk(fieldnames)
    /\ e_pc' = "ValueError"
    /\ UNCHANGED <<input_exists, fieldnames, reader_rows, batch_inns, batch_rows,
                   total, out_header, out_rows, lookups>>
    /\ UNCHANGED <<load_vars, extract_vars, fn_vars, table, BATCH_SIZE>>

\* writer.writeheader() and the initialisation of the batch
EnrichWriteHeader ==
    /\ e_pc = "start"
    /\ input_exists
    /\ HeaderOk(fieldnames)
    /\ out_header' = fieldnames
    /\ batch_inns' = <<>>
    /\ batch_rows' = <<>>
    /\ total' = 0
    /\ e_pc' = "loop"
    /\ UNCHANGED <<input_exists, fieldnames, reader_rows, out_rows, lookups>>
    /\ UNCHANGED <<load_vars, extract_vars, fn_vars, table, BATCH_SIZE>>

\* one iteration of "for row in reader", with the flush of a full batch
EnrichReadRow ==
    /\ e_pc = "loop"
    /\ Len(reader_rows) < MaxRows
    /\ \E row \in RowsOf(fieldnames) :
        LET inns == Append(batch_inns, normalize_inn(Get(row, "INN", <<>>)))
            rows == Append(batch_rows, row)
        IN  /\ reader_rows' = Append(reader_rows, row)
            /\ IF Len(inns) >= BATCH_SIZE
               THEN Flush(inns, rows)
               ELSE /\ batch_inns' = inns
                    /\ batch_rows' = rows
                    /\ UNCHANGED <<out_rows, lookups, total>>
    /\ UNCHANGED <<input_exists, fieldnames, out_header, e_pc>>
    /\ UNCHANGED <<load_vars, extract_vars, fn_vars, table, BATCH_SIZE>>

\* the reader is exhausted: the final flush()
EnrichFinish ==
    /\ e_pc = "loop"
    /\ Flush(batch_inns, batch_rows)
    /\ e_pc' = "done"
    /\ UNCHANGED <<input_exists, fieldnames, reader_rows, out_header>>
    /\ UNCHANGED <<load_vars, extract_vars, fn_vars, table, BATCH_SIZE>>

EnrichNext ==
    \/ EnrichFileNotFound
    \/ EnrichBadHeader
    \/ EnrichWriteHeader
    \/ EnrichReadRow
    \/ EnrichFinish

\* the loader is not running: its last run, over the tuples c, is complete
LoadIdle(c) ==
    /\ dir_exists = TRUE
    /\ recs = c
    /\ rec_pos = Len(c)
    /\ buf = <<>>
    /\ exec_pos = 0
    /\ loaded = Len(c)
    /\ table = ApplyAll({}, c, 0)
    /\ txn = table
    /\ txn_log = <<>>
    /\ table0 = {}
    /\ durable_log = c
    /\ clock = 1
    /\ runs = 1
    /\ index_calls = 1
    /\ l_pc = "done"

EnrichInit ==
    /\ input_exists \in BOOLEAN
    /\ fieldnames \in Headers
    /\ reader_rows = <<>>
    /\ batch_inns = <<>>
    /\ batch_rows = <<>>
    /\ total = 0
    /\ out_header = NoHeader
    /\ out_rows = <<>>
    /\ lookups = <<>>
    /\ e_pc = "start"
    /\ BATCH_SIZE \in 1..MaxBatch
    /\ \E n \in 1..Len(StoreRecs) : LoadIdle(SubSeq(StoreRecs, 1, n))
    /\ ExtractIdle
    /\ FnIdle

SpecEnrich == EnrichInit /\ [][EnrichNext]_vars

----------------------------------------------------------------------------
(* Inputs of the loader *)

\* identifiers, (type tag, region code) pairs and file names of extraction
\* tuples
TupleInns == { <<"1">>, <<"2">> }
TupleKinds == { <<"IP", <<"7">>>>, <<"UL", <<"8">>>> }
FileNames == << "a.xml", "b.xml" >>

Tuples ==
    { <<i, k[1], k[2], FileNames[f]>> :
        i \in TupleInns, k \in TupleKinds, f \in 1..Len(FileNames) }

\* position of a file in sorted(xml_dir.glob("*.xml"))
FileIndex(name) == CHOOSE f \in 1..Len(FileNames) : FileNames[f] = name

\* iter_all_rows yields the tuples of the files in sorted file order
Corpora ==
    { c \in UNION { [1..n -> Tuples] : n \in 0..MaxTuples } :
        \A i \in 1..Len(c), j \in 1..Len(c) :
            i < j => FileIndex(c[i][4]) <= FileIndex(c[j][4]) }

----------------------------------------------------------------------------
(* load_to_postgres *)

\* raise FileNotFoundError(XML_DIR)
LoadDirNotFound ==
    /\ l_pc = "start"
    /\ ~dir_exists
    /\ l_pc' = "FileNotFoundError"
    /\ UNCHANGED <<dir_exists, recs, rec_pos, buf, exec_pos, loaded, txn, txn_log,
                   table0, durable_log, clock, runs, index_calls>>
    /\ UNCHANGED <<enrich_vars, extract_vars, fn_vars, table, BATCH_SIZE>>

\* connect, CREATE TABLE IF NOT EXISTS, commit, total = 0, buf = []
LoadStart ==
    /\ l_pc = "start"
    /\ dir_exists
    /\ loaded' = 0
    /\ buf' = <<>>
    /\ txn' = table
    /\ txn_log' = <<>>
    /\ l_pc' = "loop"
    /\ UNCHANGED <<dir_exists, recs, rec_pos, exec_pos, table0, durable_log,
                   clock, runs, index_calls>>
    /\ UNCHANGED <<enrich_vars, extract_vars, fn_vars, table, BATCH_SIZE>>

\* one iteration of "for rec in iter_all_rows": buf.append(rec) and the test
\* of a full batch
LoadAppend ==
    /\ l_pc = "loop"
    /\ rec_pos < Len(recs)
    /\ buf' = Append(buf, recs[rec_pos + 1])
    /\ rec_pos' = rec_pos + 1
    /\ exec_pos' = 0
    /\ l_pc' = IF Len(buf') >= BATCH_SIZE THEN "executemany" ELSE "loop"
    /\ UNCHANGED <<dir_exists, recs, loaded, txn, txn_log, table0, durable_log,
                   clock, runs, index_calls>>
    /\ UNCHANGED <<enrich_vars, extract_vars, fn_vars, table, BATCH_SIZE>>

\* mutant of LoadEndOfStream: the final partial batch is not flushed
LoadEndOfStream_NoFlush ==
    /\ l_pc = "loop"
    /\ rec_pos = Len(recs)
    /\ exec_pos' = 0
    /\ l_pc' = "loaded"
    /\ UNCHANGED <<dir_exists, recs, rec_pos, buf, loaded, txn, txn_log, table0,
                   durable_log, clock, runs, index_calls>>
    /\ UNCHANGED <<enrich_vars, extract_vars, fn_vars, table, BATCH_SIZE>>

\* the stream is exhausted: "if buf:"
LoadEndOfStream ==
    /\ l_pc = "loop"
    /\ rec_pos = Len(recs)
    /\ exec_pos' = 0
    /\ l_pc' = IF buf # <<>> THEN "final_executemany" ELSE "loaded"
    /\ UNCHANGED <<dir_exists, recs, rec_pos, buf, loaded, txn, txn_log, table0,
                   durable_log, clock, runs, index_calls>>
    /\ UNCHANGED <<enrich_vars, extract_vars, fn_vars, table, BATCH_SIZE>>

\* mutant of LoadExecute: the connection is in autocommit mode, every
\* parameter tuple is durable at once
LoadExecute_Autocommit ==
    /\ l_pc \in {"executemany", "final_executemany"}
    /\ exec_pos < Len(buf)
    /\ txn' = Upsert(txn, buf[exec_pos + 1], clock)
    /\ table' = txn'
    /\ txn_log' = Append(txn_log, buf[exec_pos + 1])
    /\ exec_pos' = exec_pos + 1
    /\ UNCHANGED <<dir_exists, recs, rec_pos, buf, loaded, table0, durable_log,
                   clock, runs, index_calls, l_pc>>
    /\ UNCHANGED <<enrich_vars, extract_vars, fn_vars, BATCH_SIZE>>

\* cur.executemany(UPSERT_SQL, buf): the next parameter tuple, inside the
\* open transaction
LoadExecute ==
    /\ l_pc \in {"executemany", "final_executemany"}
    /\ exec_pos < Len(buf)
    /\ txn' = Upsert(txn, buf[exec_pos + 1], clock)
    /\ txn_log' = Append(txn_log, buf[exec_pos + 1])
    /\ exec_pos' = exec_pos + 1
    /\ UNCHANGED <<dir_exists, recs, rec_pos, buf, loaded, table0, durable_log,
                   clock, runs, index_calls, l_pc>>
    /\ UNCHANGED <<enrich_vars, extract_vars, fn_vars, table, BATCH_SIZE>>

\* conn.commit(); total += len(buf); buf.clear()  of a full batch
LoadCommit ==
    /\ l_pc = "executemany"
    /\ exec_pos = Len(buf)
    /\ table' = txn
    /\ durable_log' = durable_log \o txn_log
    /\ txn_log' = <<>>
    /\ loaded' = loaded + Len(buf)
    /\ buf' = <<>>
    /\ clock' = clock + 1
    /\ l_pc' = "loop"
    /\ UNCHANGED <<dir_exists, recs, rec_pos, exec_pos, txn, table0, runs,
                   index_calls>>
    /\ UNCHANGED <<enrich_vars, extract_vars, fn_vars, BATCH_SIZE>>

\* conn.commit(); total += len(buf)  of the final partial batch, and the end
\* of the connection block
LoadFinalCommit ==
    /\ l_pc = "final_executemany"
    /\ exec_pos = Len(buf)
    /\ table' = txn
    /\ durable_log' = durable_log \o txn_log
    /\ txn_log' = <<>>
    /\ loaded' = loaded + Len(buf)
    /\ clock' = clock + 1
    /\ l_pc' = "loaded"
    /\ UNCHANGED <<dir_exists, recs, rec_pos, buf, exec_pos, txn, table0, runs,
                   index_calls>>
    /\ UNCHANGED <<enrich_vars, extract_vars, fn_vars, BATCH_SIZE>>

\* mutant of LoadCreateIndex: the index is created inside the connection
\* block, after the last executemany and before its commit
LoadCreateIndex_BeforeCommit ==
    /\ l_pc = "final_executemany"
    /\ exec_pos = Len(buf)
    /\ index_calls' = index_calls + 1
    /\ l_pc' = "done"
    /\ UNCHANGED <<dir_exists, recs, rec_pos, buf, exec_pos, loaded, txn, txn_log,
                   table0, durable_log, clock, runs>>
    /\ UNCHANGED <<enrich_vars, extract_vars, fn_vars, table, BATCH_SIZE>>

\* create_index_after_load()
LoadCreateIndex ==
    /\ l_pc = "loaded"
    /\ index_calls' = index_calls + 1
    /\ l_pc' = "done"
    /\ UNCHANGED <<dir_exists, recs, rec_pos, buf, exec_pos, loaded, txn, txn_log,
                   table0, durable_log, clock, runs>>
    /\ UNCHANGED <<enrich_vars, extract_vars, fn_vars, table, BATCH_SIZE>>

\* mutant of LoadStoreError: the upserts already executed are committed
\* before the run stops
LoadStoreError_NoRollback ==
    /\ l_pc \in {"executemany", "final_executemany"}
    /\ table' = txn
    /\ txn_log' = <<>>
    /\ clock' = clock + 1
    /\ l_pc' = "failed"
    /\ UNCHANGED <<dir_exists, recs, rec_pos, buf, exec_pos, loaded, txn, table0,
                   durable_log, runs, index_calls>>
    /\ UNCHANGED <<enrich_vars, extract_vars, fn_vars, BATCH_SIZE>>

\* cur.executemany or conn.commit raises: the exception leaves both with
\* blocks, the connection rolls back, load_to_postgres ends with the error
LoadStoreError ==
    /\ l_pc \in {"executemany", "final_executemany"}
    /\ txn' = table
    /\ txn_log' = <<>>
    /\ clock' = clock + 1
    /\ l_pc' = "failed"
    /\ UNCHANGED <<dir_exists, recs, rec_pos, buf, exec_pos, loaded, table0,
                   durable_log, runs, index_calls>>
    /\ UNCHANGED <<enrich_vars, extract_vars, fn_vars, table, BATCH_SIZE>>

\* the process is terminated while the run is in progress: the open
\* transaction is rolled back by the server, committed rows stay
LoadInterrupt ==
    /\ l_pc \in {"start", "loop", "executemany", "final_executemany", "loaded"}
    /\ txn' = table
    /\ txn_log' = <<>>
    /\ clock' = clock + 1
    /\ l_pc' = "crashed"
    /\ UNCHANGED <<dir_exists, recs, rec_pos, buf, exec_pos, loaded, table0,
                   durable_log, runs, index_calls>>
    /\ UNCHANGED <<enrich_vars, extract_vars, fn_vars, table, BATCH_SIZE>>

\* mutant of LoadRestart: the new run resumes after the last consumed tuple
LoadRestart_Resume ==
    /\ l_pc \in {"crashed", "done"}
    /\ runs < MaxRuns
    /\ runs' = runs + 1
    /\ buf' = <<>>
    /\ exec_pos' = 0
    /\ loaded' = 0
    /\ txn' = table
    /\ txn_log' = <<>>
    /\ table0' = table
    /\ durable_log' = <<>>
    /\ index_calls' = 0
    /\ l_pc' = "start"
    /\ UNCHANGED <<dir_exists, recs, rec_pos, clock>>
    /\ UNCHANGED <<enrich_vars, extract_vars, fn_vars, table, BATCH_SIZE>>

\* the operator runs load_to_postgres again over the same directory
LoadRestart ==
    /\ l_pc \in {"crashed", "done"}
    /\ runs < MaxRuns
    /\ runs' = runs + 1
    /\ rec_pos' = 0
    /\ buf' = <<>>
    /\ exec_pos' = 0
    /\ loaded' = 0
    /\ txn' = table
    /\ txn_log' = <<>>
    /\ table0' = table
    /\ durable_log' = <<>>
    /\ index_calls' = 0
    /\ l_pc' = "start"
    /\ UNCHANGED <<dir_exists, recs, clock>>
    /\ UNCHANGED <<enrich_vars, extract_vars, fn_vars, table, BATCH_SIZE>>

LoadNext ==
    \/ LoadDirNotFound
    \/ LoadStart
    \/ LoadAppend
    \/ LoadEndOfStream
    \/ LoadExecute
    \/ LoadCommit
    \/ LoadFinalCommit
    \/ LoadCreateIndex
    \/ LoadStoreError
    \/ LoadInterrupt
    \/ LoadRestart

\* the enrichment pass is not running
EnrichIdle ==
    /\ input_exists = TRUE
    /\ fieldnames = <<"INN", "Region">>
    /\ reader_rows = <<>>
    /\ batch_inns = <<>>
    /\ batch_rows = <<>>
    /\ total = 0
    /\ out_header = NoHeader
    /\ out_rows = <<>>
    /\ lookups = <<>>
    /\ e_pc = "idle"

LoadInit ==
    /\ dir_exists \in BOOLEAN
    /\ recs \in Corpora
    /\ rec_pos = 0
    /\ buf = <<>>
    /\ exec_pos = 0
    /\ loaded = 0
    /\ table = {}
    /\ txn = {}
    /\ txn_log = <<>>
    /\ table0 = {}
    /\ durable_log = <<>>
    /\ clock = 0
    /\ runs = 1
    /\ index_calls = 0
    /\ l_pc = "start"
    /\ BATCH_SIZE \in 1..MaxBatch
    /\ EnrichIdle
    /\ ExtractIdle
    /\ FnIdle

SpecLoad == LoadInit /\ [][LoadNext]_vars

----------------------------------------------------------------------------
(* iter_rows_from_xml, iter_all_rows *)

MaxEvents == 3

\* doc.find(...) found no such child
NoNode == <<"<no node>">>

\* the inn_type of "return None, None"
NoType == "None"

\* truth value of an attribute value or of a stripped string
Truthy(v) == v # None /\ v # <<>>

\* attribute values of <ИПВклМСП ИННФЛ>, <ОргВклМСП ИННЮЛ>, <СведМН КодРегион>:
\* no such node, a blank value, a padded value
IpAttrs == { NoNode, <<" ">>, <<" ", "1", "-">> }
UlAttrs == { NoNode, <<"2">> }
MnAttrs == { NoNode, <<" ">>, <<" ", "7">> }

\* the <Документ> elements iterparse can deliver
Docs == [ip : IpAttrs, ul : UlAttrs, mn : MnAttrs]

NoDoc == [ip |-> NoNode, ul |-> NoNode, mn |-> NoNode]

extract_inn_and_type(doc) ==
    IF doc.ip # NoNode /\ Truthy(doc.ip) THEN <<Strip(doc.ip), "IP">>
    ELSE IF doc.ul # NoNode /\ Truthy(doc.ul) THEN <<Strip(doc.ul), "UL">>
    ELSE <<None, NoType>>

\* mutant of kodregion: the attribute value is used as it is
kodregion_Raw(doc) ==
    IF doc.mn # NoNode /\ Truthy(doc.mn) THEN doc.mn ELSE None

\* kodregion of iter_rows_from_xml
kodregion(doc) ==
    IF doc.mn # NoNode /\ Truthy(doc.mn) THEN Strip(doc.mn) ELSE None

\* what the loop body of iter_rows_from_xml yields for one element
DocTuples(doc, name) ==
    LET it == extract_inn_and_type(doc)
        kr == kodregion(doc)
    IN  IF Truthy(it[1]) /\ it[2] # NoType /\ Truthy(kr)
        THEN << <<it[1], it[2], kr, name>> >>
        ELSE <<>>

\* iterparse delivers the end of one more <Документ> of the current file
ExtractDoc ==
    /\ x_pc = "iter"
    /\ x_file <= Len(FileNames)
    /\ Len(x_events) < MaxEvents
    /\ \E doc \in Docs :
        /\ x_events' = Append(x_events, [file |-> x_file, kind |-> "doc", doc |-> doc])
        /\ emitted' = emitted \o DocTuples(doc, FileNames[x_file])
    /\ UNCHANGED <<x_file, warnings, x_pc>>
    /\ UNCHANGED <<enrich_vars, load_vars, fn_vars, table, BATCH_SIZE>>

\* iterparse meets malformed markup and raises: the except clauses print the
\* warning and the generator of this file ends
ExtractSyntaxError ==
    /\ x_pc = "iter"
    /\ x_file <= Len(FileNames)
    /\ Len(x_events) < MaxEvents
    /\ x_events' = Append(x_events, [file |-> x_file, kind |-> "error", doc |-> NoDoc])
    /\ warnings' = Append(warnings, FileNames[x_file])
    /\ x_file' = x_file + 1
    /\ UNCHANGED <<emitted, x_pc>>
    /\ UNCHANGED <<enrich_vars, load_vars, fn_vars, table, BATCH_SIZE>>

\* iterparse meets malformed markup and, with recover=True, goes on parsing
\* without raising
ExtractRecover ==
    /\ x_pc = "iter"
    /\ x_file <= Len(FileNames)
    /\ Len(x_events) < MaxEvents
    /\ x_events' = Append(x_events, [file |-> x_file, kind |-> "error", doc |-> NoDoc])
    /\ UNCHANGED <<x_file, emitted, warnings, x_pc>>
    /\ UNCHANGED <<enrich_vars, load_vars, fn_vars, table, BATCH_SIZE>>

\* the current file is exhausted: iter_all_rows goes to the next one
ExtractEndOfFile ==
    /\ x_pc = "iter"
    /\ x_file <= Len(FileNames)
    /\ x_file' = x_file + 1
    /\ UNCHANGED <<x_events, emitted, warnings, x_pc>>
    /\ UNCHANGED <<enrich_vars, load_vars, fn_vars, table, BATCH_SIZE>>

\* the sorted file list is exhausted: iter_all_rows returns
ExtractEndOfDir ==
    /\ x_pc = "iter"
    /\ x_file > Len(FileNames)
    /\ x_pc' = "done"
    /\ UNCHANGED <<x_file, x_events, emitted, warnings>>
    /\ UNCHANGED <<enrich_vars, load_vars, fn_vars, table, BATCH_SIZE>>

ExtractNext ==
    \/ ExtractDoc
    \/ ExtractSyntaxError
    \/ ExtractRecover
    \/ ExtractEndOfFile
    \/ ExtractEndOfDir

ExtractInit ==
    /\ x_file = 1
    /\ x_events = <<>>
    /\ emitted = <<>>
    /\ warnings = <<>>
    /\ x_pc = "iter"
    /\ BATCH_SIZE = 1
    /\ LoadIdle(<<>>)
    /\ EnrichIdle
    /\ FnIdle

SpecExtract == ExtractInit /\ [][ExtractNext]_vars

----------------------------------------------------------------------------
(* The two passes that keep a batch: a run of the loader, or a run of the
   enrichment pass over the store a load has left *)

BatchInit == LoadInit \/ EnrichInit

BatchNext ==
    \/ e_pc = "idle" /\ LoadNext
    \/ e_pc # "idle" /\ EnrichNext

SpecBatch == BatchInit /\ [][BatchNext]_vars

----------------------------------------------------------------------------
(* normalize_inn, called on its own *)

MaxLen == 3

\* characters of a raw identifier: decimal digits (a leading zero included),
\* whitespace, punctuation, a letter and a non-decimal digit
Alphabet == {"0", "1", " ", "-", "a", "^2"}

\* the arguments of normalize_inn: None and every text up to MaxLen characters
RawTexts == {None} \cup UNION {[1..n -> Alphabet] : n \in 0..MaxLen}

NormInit ==
    /\ fn_arg \in RawTexts
    /\ fn_res = NotCalled
    /\ BATCH_SIZE = 1
    /\ LoadIdle(<<>>)
    /\ EnrichIdle
    /\ ExtractIdle

\* normalize_inn(raw)
NormCall ==
    /\ fn_res = NotCalled
    /\ fn_res' = normalize_inn(fn_arg)
    /\ UNCHANGED <<fn_arg, enrich_vars, load_vars, extract_vars, table, BATCH_SIZE>>

SpecNorm == NormInit /\ [][NormCall]_vars

----------------------------------------------------------------------------
(* the loop body of flush, called on its own *)

\* region codes load_regions can return: a filled one and the empty string
MapRegions == { <<"7">>, <<>> }

\* the dicts load_regions can return for identifiers of InnCells
RegionMaps ==
    UNION { [d -> MapRegions] : d \in SUBSET { <<"1">>, <<"2">> } }

RowInit ==
    /\ fn_arg \in RowsOf(<<"INN", "Region">>) \X RegionMaps
    /\ fn_res = NotCalled
    /\ BATCH_SIZE = 1
    /\ LoadIdle(<<>>)
    /\ EnrichIdle
    /\ ExtractIdle

\* one iteration of "for row in batch_rows" of flush
RowCall ==
    /\ fn_res = NotCalled
    /\ fn_res' = EnrichRow(fn_arg[1], fn_arg[2])
    /\ UNCHANGED <<fn_arg, enrich_vars, load_vars, extract_vars, table, BATCH_SIZE>>

SpecEnrichRow == RowInit /\ [][RowCall]_vars

----------------------------------------------------------------------------
(* Properties of the enrichment pass (SpecEnrich) *)

\* the identifiers that have a row in the store
StoreInns == {r.inn : r \in table}

\* the i-th row read has been written
Written == 1..Len(out_rows)

\* C1 as stated: every written row whose input target-region field is a
\* non-empty string has the same target-region value in the output.
C1_NonEmptyKept ==
    \A i \in Written :
        LET v == reader_rows[i]["Region"]
        IN  (v # None /\ v # <<>>) => out_rows[i]["Region"] = v

\* C1, amended: every written row whose input target-region field holds a
\* non-whitespace character has the same target-region value in the output,
\* whatever the store holds for its identifier and whatever its batch.
C1_NonBlankKept ==
    \A i \in Written :
        LET v == reader_rows[i]["Region"]
        IN  (v # None /\ Strip(v) # <<>>) => out_rows[i]["Region"] = v

\* a written row with a filled target field whose identifier is in the store
\* under another region code
C1_Witness ==
    \E i \in Written : \E r \in table :
        LET v == reader_rows[i]["Region"]
        IN  /\ v # None /\ Strip(v) # <<>>
            /\ r.inn = normalize_inn(reader_rows[i]["INN"])
            /\ r.kodregion # v

\* C2: every written row whose input target-region field is empty and whose
\* normalized identifier is the identifier of a stored row carries exactly
\* that stored row's region code.
C2_MatchFilled ==
    \A i \in Written : \A r \in table :
        (/\ reader_rows[i]["Region"] \in {None, <<>>}
         /\ normalize_inn(reader_rows[i]["INN"]) = r.inn)
        => out_rows[i]["Region"] = r.kodregion

\* a filled row that was not the first row of its batch, read with a raw
\* identifier that differs from its normalized form
C2_Witness ==
    \E i \in Written : \E r \in table :
        /\ reader_rows[i]["Region"] = <<>>
        /\ normalize_inn(reader_rows[i]["INN"]) = r.inn
        /\ reader_rows[i]["INN"] # r.inn
        /\ BATCH_SIZE > 1
        /\ (i - 1) % BATCH_SIZE # 0

\* the rows an input row can become: itself, or itself with a stored region
Enriched(row) == {row} \cup {Put(row, "Region", r.kodregion) : r \in table}

\* C3: after a completed run the output has as many rows as the input and
\* its i-th row is the (possibly enriched) i-th input row.
C3_OrderKept ==
    e_pc = "done" =>
        /\ Len(out_rows) = Len(reader_rows)
        /\ \A i \in 1..Len(reader_rows) : out_rows[i] \in Enriched(reader_rows[i])

\* a completed run over three pairwise different rows, match / no match /
\* match, whose length is not a multiple of the batch size
C3_Witness ==
    /\ e_pc = "done"
    /\ Len(reader_rows) = 3
    /\ BATCH_SIZE = 2
    /\ normalize_inn(reader_rows[1]["INN"]) \in StoreInns
    /\ normalize_inn(reader_rows[2]["INN"]) \notin StoreInns
    /\ normalize_inn(reader_rows[3]["INN"]) \in StoreInns
    /\ out_rows[1] # out_rows[2]
    /\ out_rows[2] # out_rows[3]
    /\ out_rows[1] # out_rows[3]
    /\ out_rows[1] # reader_rows[1]

\* the identifier of the row finds nothing in the store
NoMatch(row) ==
    \/ normalize_inn(row["INN"]) = <<>>
    \/ normalize_inn(row["INN"]) \notin StoreInns

C5_FrameKept ==
    /\ \A i \in Written :
        /\ DOMAIN out_rows[i] = DOMAIN reader_rows[i]
        /\ \A c \in DOMAIN reader_rows[i] \ {"Region"} :
               out_rows[i][c] = reader_rows[i][c]
    /\ e_pc \in {"loop", "done"} => out_header = fieldnames

\* a row with a third column and a non-canonical raw identifier whose target
\* field was filled
C5_Witness ==
    \E i \in Written :
        /\ Len(fieldnames) = 3
        /\ out_rows[i]["Region"] # reader_rows[i]["Region"]
        /\ reader_rows[i]["INN"] # normalize_inn(reader_rows[i]["INN"])

\* the header is empty or lacks the identifier or the target-region column
LacksColumn(names) ==
    \/ Len(names) = 0
    \/ \A i \in 1..Len(names) : names[i] # "INN"
    \/ \A i \in 1..Len(names) : names[i] # "Region"

\* C6: with a header that is empty or lacks a required column the run ends
\* in the configuration error, and in that error state no row was read into
\* a batch, no lookup was issued and neither header nor row was written.
C6_FailFast ==
    /\ (input_exists /\ LacksColumn(fieldnames) /\ e_pc # "start")
           => e_pc = "ValueError"
    /\ e_pc = "ValueError" =>
        /\ reader_rows = <<>>
        /\ batch_inns = <<>>
        /\ batch_rows = <<>>
        /\ lookups = <<>>
        /\ out_header = NoHeader
        /\ out_rows = <<>>

\* the configuration error raised for a readable header without the
\* target-region column
C6_Witness ==
    /\ e_pc = "ValueError"
    /\ fieldnames # <<>>
    /\ "INN" \in Range(fieldnames)
    /\ "Region" \notin Range(fieldnames)

----------------------------------------------------------------------------
(* Properties of the loader (SpecLoad) *)

\* a stored row without updated_at
Visible(r) ==
    [inn |-> r.inn, inn_type |-> r.inn_type, kodregion |-> r.kodregion,
     source_file |-> r.source_file]

Proj(rows) == {Visible(r) : r \in rows}

\* the run has passed its final flush
LoadComplete == l_pc \in {"loaded", "done"}

\* C7: a completed load has upserted and committed every tuple exactly once,
\* in input order, and its total is the number of tuples; this includes the
\* final partial batch.
C7_AllLoadedOnce ==
    LoadComplete =>
        /\ durable_log = recs
        /\ loaded = Len(recs)

\* a completed load of three tuples in batches of two: the last batch is
\* partial
C7_Witness ==
    /\ l_pc = "done"
    /\ Len(recs) = 3
    /\ BATCH_SIZE = 2
    /\ Len(buf) = 1

\* the rows a tuple sequence leaves when the last tuple of each identifier wins
LastWins(c) ==
    { [inn |-> c[i][1], inn_type |-> c[i][2], kodregion |-> c[i][3],
       source_file |-> c[i][4]] :
        i \in {k \in 1..Len(c) : \A j \in (k + 1)..Len(c) : c[j][1] # c[k][1]} }

\* C8: after a completed load the store has exactly one row per identifier
\* of the sequence, holding the type, region and source file of the last
\* tuple with that identifier, for every batch size.
C8_LastWriteWins ==
    LoadComplete =>
        /\ Proj(table) = LastWins(recs)
        /\ Cardinality(table) = Cardinality({recs[i][1] : i \in 1..Len(recs)})

\* a completed load in which an identifier occurs in two batches with
\* different type, region and source file
C8_Witness ==
    /\ l_pc = "done"
    /\ BATCH_SIZE = 2
    /\ Len(recs) = 3
    /\ recs[1][1] = recs[3][1]
    /\ recs[1][2] # recs[3][2]
    /\ recs[1][3] # recs[3][3]
    /\ recs[1][4] # recs[3][4]

\* C9: at every point of a run the committed store is the store of the
\* run's start with the upserts of the first n tuples applied in input
\* order, where n is a whole number of batches or all tuples, and at most
\* BATCH_SIZE consumed tuples are not yet committed.
C9_WholeBatchesDurable ==
    LET n == Len(durable_log)
    IN  /\ n <= Len(recs)
        /\ durable_log = SubSeq(recs, 1, n)
        /\ n % BATCH_SIZE = 0 \/ n = Len(recs)
        /\ Proj(table) = Proj(ApplyAll(table0, SubSeq(recs, 1, n), 0))
        /\ rec_pos - n <= BATCH_SIZE

\* a crash after executemany has run upserts of a batch that was never
\* committed, an earlier batch being committed
C9_Witness ==
    /\ l_pc = "crashed"
    /\ durable_log # <<>>
    /\ exec_pos > 0
    /\ rec_pos > Len(durable_log)

\* C10: a load restarted from the first file after an interruption or a
\* completed run, and run to completion, leaves the store of one
\* uninterrupted load of the same corpus (updated_at ignored), with exactly
\* one row for the identifier of every tuple.
C10_RerunConverges ==
    (runs > 1 /\ LoadComplete) =>
        /\ Proj(table) = Proj(ApplyAll({}, recs, 0))
        /\ \A i \in 1..Len(recs) :
               Cardinality({r \in table : r.inn = recs[i][1]}) = 1

\* a completed second run that started from the partial store of an
\* interrupted first run
C10_Witness ==
    /\ runs = 2
    /\ l_pc = "done"
    /\ table0 # {}
    /\ Proj(table0) # Proj(table)
    /\ Cardinality(table) < Len(recs)

\* the connection of the "with psycopg.connect(PG_DSN) as conn" block is open
LoadConnOpen == l_pc \in {"loop", "executemany", "final_executemany"}

\* C14: when the upsert or the commit of a batch fails the run ends with the
\* error: the rows of the failed batch are not durable, the batches
\* committed before stay, the index build is not started, and from then on
\* the run upserts nothing, retries nothing and builds no index.
C14_StoreErrorFatal ==
    /\ [](l_pc = "failed" =>
            /\ txn_log = <<>>
            /\ rec_pos > Len(durable_log)
            /\ durable_log = SubSeq(recs, 1, Len(durable_log))
            /\ Len(durable_log) % BATCH_SIZE = 0
            /\ Proj(table) = Proj(ApplyAll(table0, durable_log, 0))
            /\ index_calls = 0)
    /\ [][l_pc = "failed" =>
            /\ l_pc' = "failed"
            /\ table' = table
            /\ txn_log' = txn_log
            /\ index_calls' = index_calls]_vars

\* the commit of the second batch failed after its upsert was executed, a
\* third tuple being left unread
C14_Witness ==
    /\ l_pc = "failed"
    /\ durable_log # <<>>
    /\ exec_pos > 0
    /\ rec_pos < Len(recs)

----------------------------------------------------------------------------
(* Properties of the extractor (SpecExtract) *)

\* the events iterparse delivered for file f
EventsOf(f) == SelectSeq(x_events, LAMBDA e : e.file = f)

\* a parse error occurred in file f
Malformed(f) == \E i \in 1..Len(x_events) :
                    x_events[i].file = f /\ x_events[i].kind = "error"

\* iter_all_rows has left file f
Finished(f) == x_file > f

\* the tuples yielded with the name of file f
EmittedFrom(f) == SelectSeq(emitted, LAMBDA t : t[4] = FileNames[f])

\* an attribute is there and holds more than whitespace
Present(v) == v # NoNode /\ v # None /\ Strip(v) # <<>>

\* the element has an identifier in one of the two shapes and a region code
ValidRecord(doc) == (Present(doc.ip) \/ Present(doc.ul)) /\ Present(doc.mn)

\* the valid records among the delivered elements, in order
ValidEvents(events) ==
    SelectSeq(events, LAMBDA e : e.kind = "doc" /\ ValidRecord(e.doc))

\* C11: for every file in which a parse error occurred a warning is
\* reported and no tuple carrying that file's name is emitted.
C11_MalformedSkipped ==
    \A f \in 1..Len(FileNames) :
        Malformed(f) =>
            /\ FileNames[f] \in Range(warnings)
            /\ EmittedFrom(f) = <<>>

\* C12: the directory iteration is never left by an exception, and of every
\* well-formed file it has left every valid record was emitted, whatever
\* happened in the files before and after it.
C12_FileIsolation ==
    /\ x_pc \in {"iter", "done"}
    /\ \A f \in 1..Len(FileNames) :
        (Finished(f) /\ ~Malformed(f)) =>
            Len(EmittedFrom(f)) = Len(ValidEvents(EventsOf(f)))

\* a string of decimal digits
Canonical(s) == \A i \in 1..Len(s) : s[i] \in DecimalDigits

\* the raw attribute value the identifier of a valid record came from
RawInn(doc) == IF Present(doc.ip) THEN doc.ip ELSE doc.ul

\* C13: every emitted identifier consists of decimal digits only, equals its
\* own normalization, and is the identifier the enrichment pass looks up
\* for the same raw value.
C13_CanonicalIdentifiers ==
    /\ \A i \in 1..Len(emitted) :
        /\ Canonical(emitted[i][1])
        /\ emitted[i][1] = normalize_inn(emitted[i][1])
    /\ \A i \in 1..Len(x_events) :
        (x_events[i].kind = "doc" /\ ValidRecord(x_events[i].doc)) =>
            \A t \in Range(DocTuples(x_events[i].doc, FileNames[x_events[i].file])) :
                t[1] = normalize_inn(RawInn(x_events[i].doc))

\* the type tags the valid records call for, in order
ClaimedTypes ==
    LET v == ValidEvents(x_events)
    IN  [i \in 1..Len(v) |-> IF Present(v[i].doc.ip) THEN "IP" ELSE "UL"]

\* C17: every element with an identifier in either shape and a region code
\* yields exactly one tuple, tagged IP or UL after the shape the identifier
\* came from, and every other element yields nothing.
C17_EmissionRule ==
    [i \in 1..Len(emitted) |-> emitted[i][2]] = ClaimedTypes

\* C18: no emitted tuple, and so no upsert and no stored row, carries a
\* region code that is empty or whitespace only.
C18_RegionNonEmpty ==
    /\ \A i \in 1..Len(emitted) :
        /\ emitted[i][3] # None
        /\ Strip(emitted[i][3]) # <<>>
    /\ \A r \in ApplyAll({}, emitted, 0) :
        /\ r.kodregion # None
        /\ Strip(r.kodregion) # <<>>

\* a record with a blank region code was delivered and dropped, and a record
\* with a padded region code was emitted
C18_Witness ==
    /\ \E i \in 1..Len(x_events) :
        /\ x_events[i].kind = "doc"
        /\ x_events[i].doc.mn = <<" ">>
        /\ Present(x_events[i].doc.ul)
    /\ \E i \in 1..Len(x_events) :
        /\ x_events[i].kind = "doc"
        /\ x_events[i].doc.mn = <<" ", "7">>
        /\ DocTuples(x_events[i].doc, FileNames[x_events[i].file]) # <<>>
    /\ Len(emitted) = 1

----------------------------------------------------------------------------
(* Properties of normalize_inn (SpecNorm) *)

\* the characters 0-9 of a text, in order
DecimalDigitsOf(raw) == SelectSeq(OrEmpty(raw), LAMBDA ch : ch \in DecimalDigits)

\* C16: for every input text, and for None, normalize_inn returns exactly the
\* input's decimal digit characters 0-9 in their original order, leading
\* zeros kept; every other character is removed, and an input without a
\* decimal digit gives the empty string.
C16_DecimalDigitsOnly ==
    fn_res # NotCalled => fn_res = DecimalDigitsOf(fn_arg)

----------------------------------------------------------------------------
(* Properties of the loop body of flush (SpecEnrichRow) *)

\* a non-empty text of whitespace characters only
Blank(s) == s # None /\ s # <<>> /\ \A i \in 1..Len(s) : IsSpace(s[i])

\* C20: a row whose target-region field is whitespace only is treated like
\* one whose target is empty: the field is overwritten with the stored region
\* code when the normalized identifier is in the store, and the row is left as
\* it is otherwise; a stored region code that is the empty string never
\* replaces anything.
C20_BlankTargetIsEmpty ==
    fn_res # NotCalled =>
        LET row == fn_arg[1]
            region_map == fn_arg[2]
            inn == normalize_inn(row["INN"])
            stored == inn \in DOMAIN region_map
        IN  /\ (stored /\ region_map[inn] = <<>>) => fn_res = row
            /\ (Blank(row["Region"]) /\ stored /\ region_map[inn] # <<>>)
                  => fn_res = [row EXCEPT !["Region"] = region_map[inn]]
            /\ (Blank(row["Region"]) /\ ~stored) => fn_res = row

\* a whitespace-only target has been overwritten with the stored code
C20_Witness ==
    /\ fn_res # NotCalled
    /\ Blank(fn_arg[1]["Region"])
    /\ fn_res["Region"] = <<"7">>
    /\ fn_res["INN"] = <<" ", "1", "-">>

----------------------------------------------------------------------------
(* Properties of the batches (SpecBatch) *)

\* neither batch exceeds BATCH_SIZE, and a full one is being flushed: the
\* loops never go on with a full batch
BatchBounded ==
    /\ Len(buf) <= BATCH_SIZE
    /\ Len(batch_inns) <= BATCH_SIZE
    /\ l_pc = "loop" => Len(buf) < BATCH_SIZE
    /\ e_pc = "loop" => Len(batch_inns) < BATCH_SIZE
    /\ Len(buf) = BATCH_SIZE => l_pc \in {"executemany", "failed", "crashed"}

\* the identifier buffer holds the normalized identifier of each buffered row
BatchAligned ==
    /\ Len(batch_inns) = Len(batch_rows)
    /\ \A i \in 1..Len(batch_rows) :
          batch_inns[i] = normalize_inn(Get(batch_rows[i], "INN", <<>>))

\* a step that holds a flush of the enrichment pass
EnrichFlushed == e_pc = "loop" /\ (lookups' # lookups \/ e_pc' = "done")

\* the batch of the enrichment pass is empty after each of its flushes
EnrichBatchCleared ==
    [][EnrichFlushed => (batch_inns' = <<>> /\ batch_rows' = <<>>)]_vars

\* the batch of the loader is empty after the flush of a full batch
FullBatchCleared ==
    [][(l_pc = "executemany" /\ l_pc' = "loop") => buf' = <<>>]_vars

\* the batch of the loader is empty after the flush of the final partial batch
FinalBatchCleared ==
    [][(l_pc = "final_executemany" /\ l_pc' = "loaded") => buf' = <<>>]_vars

\* C19: for every BATCH_SIZE >= 1, in every reachable state of the loader and
\* of the enrichment pass the batch holds at most BATCH_SIZE elements, it is
\* flushed as soon as it reaches BATCH_SIZE, and it is empty immediately after
\* every flush; the identifier buffer and the row buffer of the enrichment pass
\* always have the same length and are index-aligned.
C19_BoundedBatch ==
    /\ [](BatchBounded /\ BatchAligned)
    /\ EnrichBatchCleared
    /\ FullBatchCleared
    /\ FinalBatchCleared

====
